---------------------------- MODULE Spec2Model ----------------------------
(***************************************************************************)
(* A model of buffett_app.py: the 10-K analysis pipeline                   *)
(*   get_cik -> get_latest_10k_url -> fetch_10k_text -> extract_sections   *)
(*   -> analyze_with_gemini                                                *)
(* behind the route /analyze/10k/<ticker>/<section>.                       *)
(*                                                                         *)
(* Texts are sequences of one-character strings, offsets are Python's      *)
(* (0-based), and text[a:b] is Slice(text, a, b).  A value that may be     *)
(* None is None or Some(v).                                                *)
(***************************************************************************)
EXTENDS Integers, Sequences, FiniteSets, TLC

VARIABLES
    \* ---- extract_sections applied to one document (SpecExtract)
    doc,                 \* the flattened filing text handed to extract_sections
    result,              \* None, or Some(the mapping extract_sections returned)
    \* ---- the truncation of analyze_with_gemini applied to one text (SpecTrunc)
    section_text,        \* the section text handed to the truncation
    truncated_text,      \* None, or Some(the text placed in the prompt)
    \* ---- requests to analyze_10k (Spec, SpecConc); each a function of the request
    pc,                  \* where the handler of each request stands
    ticker,              \* route parameter <ticker>
    section,             \* route parameter <section>
    cik,                 \* local cik
    url,                 \* local url
    text,                \* local text
    normalized_sections, \* local normalized_sections (with "combined" when built)
    prompt,              \* what analyze_with_gemini sent to the oracle
    replies,             \* what the upstream services answered the request, in order
    response,            \* the (body, status) the handler returned
    calls,               \* the stages the request performed, in order
    \* ---- the upstream services
    upstream,            \* per upstream endpoint, the number of calls it served
    served               \* which collection of filings the archive holds

vars == <<doc, result, section_text, truncated_text, pc, ticker, section, cik, url,
          text, normalized_sections, prompt, replies, response, calls, upstream, served>>

extractVars == <<doc, result>>
truncVars == <<section_text, truncated_text>>
requestVars == <<pc, ticker, section, cik, url, text, normalized_sections, prompt,
                 replies, response, calls, upstream, served>>

None == <<>>
Some(v) == <<v>>

\* ------------------------------------------------------------------ bounds
\* Chunks per generated document.
MaxChunks == 3
\* Concurrent requests.
MaxRequests == 2
\* How far past the truncation limit the enumerated section texts go.
MaxOver == 3
\* The truncation limit of analyze_with_gemini.  The source sets 100000; the model
\* scales it so that texts below, at and above the limit can be enumerated.
MAX_TEXT_LENGTH == 7

\* ------------------------------------------------------------- characters
UPPER == <<"A","B","C","D","E","F","G","H","I","J","K","L","M","N","O","P","Q","R","S","T","U","V","W","X","Y","Z">>
LOWER == <<"a","b","c","d","e","f","g","h","i","j","k","l","m","n","o","p","q","r","s","t","u","v","w","x","y","z">>

Range(s) == { s[i] : i \in DOMAIN s }
IndexIn(s, c) == CHOOSE i \in DOMAIN s : s[i] = c

UpperLetters == Range(UPPER)
LowerLetters == Range(LOWER)
ToLower == [c \in UpperLetters |-> LOWER[IndexIn(UPPER, c)]]
ToUpper == [c \in LowerLetters |-> UPPER[IndexIn(LOWER, c)]]

IsCased(c) == c \in UpperLetters \/ c \in LowerLetters

LowerChar(c) == IF c \in UpperLetters THEN ToLower[c] ELSE c
UpperChar(c) == IF c \in LowerLetters THEN ToUpper[c] ELSE c

\* str.lower()
lower(s) == [i \in DOMAIN s |-> LowerChar(s[i])]

\* str.title(): a cased character is upper-cased when the character before it is
\* not cased (or there is none), and lower-cased otherwise.
title(s) ==
    [i \in DOMAIN s |->
        IF i = 1 \/ ~IsCased(s[i - 1]) THEN UpperChar(s[i]) ELSE LowerChar(s[i])]

\* What \s matches and what str.strip() removes.
Whitespace == {" ", "\n", "\t", "\r", "\f"}

\* text[a:b] for 0 <= a, b <= len(text)
Slice(s, a, b) == SubSeq(s, a + 1, b)

RECURSIVE LeadingSpace(_, _)
LeadingSpace(s, n) ==
    IF n < Len(s) /\ s[n + 1] \in Whitespace THEN LeadingSpace(s, n + 1) ELSE n

RECURSIVE TrailingSpace(_, _)
TrailingSpace(s, n) ==
    IF n < Len(s) /\ s[Len(s) - n] \in Whitespace THEN TrailingSpace(s, n + 1) ELSE n

\* str.strip()
strip(s) ==
    LET a == LeadingSpace(s, 0)
    IN  IF a = Len(s) THEN <<>> ELSE Slice(s, a, Len(s) - TrailingSpace(s, 0))

\* -------------------------------------------------- regular expressions
\* A pattern is a sequence of alternatives (the regex's |), an alternative a
\* sequence of elements: a literal, \s+ or [.\s]+.
Lit(chars) == [kind |-> "lit", chars |-> chars]
Spaces == [kind |-> "class+", chars |-> Whitespace]
DotSpaces == [kind |-> "class+", chars |-> {"."} \cup Whitespace]

\* re.IGNORECASE: characters are compared with their case folded.
SameChar(a, b) == LowerChar(a) = LowerChar(b)

LitAt(chars, s, pos) ==
    /\ pos + Len(chars) <= Len(s)
    /\ \A i \in DOMAIN chars : SameChar(s[pos + i], chars[i])

RECURSIVE RunLen(_, _, _)
RunLen(class, s, pos) ==
    IF pos < Len(s) /\ LowerChar(s[pos + 1]) \in class
    THEN 1 + RunLen(class, s, pos + 1)
    ELSE 0

\* The offsets at which elements k.. of an alternative can end when they start at pos.
RECURSIVE MatchEnds(_, _, _, _)
MatchEnds(alt, k, s, pos) ==
    IF k > Len(alt) THEN {pos}
    ELSE IF alt[k].kind = "lit"
         THEN IF LitAt(alt[k].chars, s, pos)
              THEN MatchEnds(alt, k + 1, s, pos + Len(alt[k].chars))
              ELSE {}
         ELSE UNION { MatchEnds(alt, k + 1, s, pos + n) :
                        n \in 1..RunLen(alt[k].chars, s, pos) }

MatchesAt(pattern, s, pos) ==
    \E a \in DOMAIN pattern : MatchEnds(pattern[a], 1, s, pos) # {}

SetMax(S) == CHOOSE x \in S : \A y \in S : y <= x
SetMin(S) == CHOOSE x \in S : \A y \in S : x <= y

\* Where the match starting at pos ends: the first alternative that matches, its
\* repetitions greedy.  In every pattern of this program the character after a
\* repetition is outside the repeated class, so an alternative has one end.
MatchEnd(pattern, s, pos) ==
    LET a == CHOOSE a \in DOMAIN pattern :
                /\ MatchEnds(pattern[a], 1, s, pos) # {}
                /\ \A b \in 1..(a - 1) : MatchEnds(pattern[b], 1, s, pos) = {}
    IN  SetMax(MatchEnds(pattern[a], 1, s, pos))

\* list(re.finditer(pattern, s, re.IGNORECASE)) as the matches' start offsets:
\* the non-overlapping matches, left to right.
RECURSIVE FindIterFrom(_, _, _)
FindIterFrom(pattern, s, pos) ==
    IF pos >= Len(s) THEN <<>>
    ELSE IF MatchesAt(pattern, s, pos)
         THEN <<pos>> \o FindIterFrom(pattern, s, MatchEnd(pattern, s, pos))
         ELSE FindIterFrom(pattern, s, pos + 1)

re_finditer(pattern, s) == FindIterFrom(pattern, s, 0)

\* re.search(pattern, s, re.IGNORECASE): <<>> for None, else <<m.start()>>.
RECURSIVE SearchFrom(_, _, _)
SearchFrom(pattern, s, pos) ==
    IF pos >= Len(s) THEN <<>>
    ELSE IF MatchesAt(pattern, s, pos) THEN <<pos>>
         ELSE SearchFrom(pattern, s, pos + 1)

re_search(pattern, s) == SearchFrom(pattern, s, 0)

\* --------------------------------------------------------------- words
ITEM == <<"i","t","e","m">>
BUSINESS_WORD == <<"b","u","s","i","n","e","s","s">>
RISK_WORD == <<"r","i","s","k">>
FACTORS_WORD == <<"f","a","c","t","o","r","s">>
MANAGEMENT_WORD == <<"m","a","n","a","g","e","m","e","n","t">>
MDA_WORD == <<"m","d","&","a">>
QUANTITATIVE_WORD == <<"q","u","a","n","t","i","t","a","t","i","v","e">>
FINANCIAL_WORD == <<"f","i","n","a","n","c","i","a","l">>

\* The canonical section names.
Business == <<"B","u","s","i","n","e","s","s">>
RiskFactors == <<"R","i","s","k"," ","F","a","c","t","o","r","s">>
MDA == <<"M","a","n","a","g","e","m","e","n","t","'","s"," ","D","i","s","c","u","s","s","i","o","n"," ","a","n","d"," ","A","n","a","l","y","s","i","s">>
Quantitative == <<"Q","u","a","n","t","i","t","a","t","i","v","e"," ","a","n","d"," ","Q","u","a","l","i","t","a","t","i","v","e"," ","D","i","s","c","l","o","s","u","r","e","s">>
FinancialStatements == <<"F","i","n","a","n","c","i","a","l"," ","S","t","a","t","e","m","e","n","t","s">>

\* ------------------------------------------------------ extract_sections
Triple(s, n, e) == [start_pattern |-> s, name |-> n, end_pattern |-> e]

patterns ==
    << Triple(<< <<Lit(ITEM), Spaces, Lit(<<"1">>), DotSpaces, Lit(BUSINESS_WORD)>> >>,
              Business,
              << <<Lit(ITEM), Spaces, Lit(<<"1","a">>)>> >>),
       Triple(<< <<Lit(ITEM), Spaces, Lit(<<"1","a">>), DotSpaces, Lit(RISK_WORD),
                   Spaces, Lit(FACTORS_WORD)>> >>,
              RiskFactors,
              << <<Lit(ITEM), Spaces, Lit(<<"1","b">>)>> >>),
       Triple(<< <<Lit(ITEM), Spaces, Lit(<<"7">>), DotSpaces, Lit(MANAGEMENT_WORD)>>,
                 <<Lit(ITEM), Spaces, Lit(<<"7">>), DotSpaces, Lit(MDA_WORD)>> >>,
              MDA,
              << <<Lit(ITEM), Spaces, Lit(<<"7","a">>)>>,
                 <<Lit(ITEM), Spaces, Lit(<<"8">>)>> >>),
       Triple(<< <<Lit(ITEM), Spaces, Lit(<<"7","a">>), DotSpaces,
                   Lit(QUANTITATIVE_WORD)>> >>,
              Quantitative,
              << <<Lit(ITEM), Spaces, Lit(<<"8">>)>> >>),
       Triple(<< <<Lit(ITEM), Spaces, Lit(<<"8">>), DotSpaces, Lit(FINANCIAL_WORD)>> >>,
              FinancialStatements,
              << <<Lit(ITEM), Spaces, Lit(<<"9">>)>> >>) >>

\* sections = {}
EmptyDict == [k \in {} |-> <<>>]

\* d[k] = v
DictSet(d, k, v) == [x \in (DOMAIN d) \cup {k} |-> IF x = k THEN v ELSE d[x]]

SelectStart_First(matches) == matches[1]

\* start = matches[-1].start()
SelectStart(matches) == matches[Len(matches)]

NotFound_Empty(sections, name) == DictSet(sections, name, <<>>)

\* `if not matches: ... continue`: the mapping is left as it is.
NotFound(sections, name) == sections

EndSearchText_Whole(s, start) == s

\* the text[start:] of re.search(end_pattern, text[start:], re.IGNORECASE)
EndSearchText(s, start) == Slice(s, start, Len(s))

EndBoundary_Ignored(start, end_match, n) == n

\* end = start + end_match.start() if end_match else len(text)
EndBoundary(start, end_match, n) ==
    IF end_match # <<>> THEN start + end_match[1] ELSE n

\* The locals start and end of one pass of the loop, the start pattern having
\* matched at `matches`.
SpanFrom(s, p, matches) ==
    LET start == SelectStart(matches)
        end_match == re_search(p.end_pattern, EndSearchText(s, start))
    IN  [start |-> start, end |-> EndBoundary(start, end_match, Len(s))]

SectionSpan(s, p) == SpanFrom(s, p, re_finditer(p.start_pattern, s))

RECURSIVE ExtractLoop(_, _, _)
ExtractLoop(s, i, sections) ==
    IF i > Len(patterns) THEN sections
    ELSE LET p == patterns[i]
             matches == re_finditer(p.start_pattern, s)
         IN  IF matches = <<>>
             THEN ExtractLoop(s, i + 1, NotFound(sections, p.name))
             ELSE LET span == SpanFrom(s, p, matches)
                      section_text_ == strip(Slice(s, span.start, span.end))
                  IN  ExtractLoop(s, i + 1, DictSet(sections, p.name, section_text_))

extract_sections(s) == ExtractLoop(s, 1, EmptyDict)

\* ------------------------------------------------------------- documents
\* Documents are built from headings of a filing, in the spellings filings use,
\* and a body; any order and repetition, so tables of contents, missing
\* headings and out-of-order headings all occur.
Chunks ==
    << <<"I","t","e","m"," ","1",".","\n","B","u","s","i","n","e","s","s">>,
       <<"I","T","E","M"," ","1","A","."," ","R","I","S","K"," ","F","A","C","T","O","R","S">>,
       <<"i","t","e","m"," ","1","b">>,
       <<"I","t","e","m"," "," ","7","."," ","M","a","n","a","g","e","m","e","n","t">>,
       <<"i","t","e","m"," ","7"," ","m","d","&","a">>,
       <<"i","t","e","m"," ","7","a","."," ","q","u","a","n","t","i","t","a","t","i","v","e">>,
       <<"I","t","e","m"," ","8","."," ","F","i","n","a","n","c","i","a","l">>,
       <<"i","t","e","m","\n","9">>,
       <<" ","x","y","\n">> >>

RECURSIVE Flatten(_)
Flatten(cs) == IF cs = <<>> THEN <<>> ELSE Chunks[Head(cs)] \o Flatten(Tail(cs))

ChunkSeqs(n) == UNION { [1..k -> DOMAIN Chunks] : k \in 0..n }

Docs == { Flatten(cs) : cs \in ChunkSeqs(MaxChunks) }

\* ------------------------------------------------------------ SpecExtract
InitExtract ==
    /\ doc \in Docs
    /\ result = None
    /\ section_text = <<>> /\ truncated_text = None
    /\ pc = <<>> /\ ticker = <<>> /\ section = <<>> /\ cik = <<>> /\ url = <<>>
    /\ text = <<>> /\ normalized_sections = <<>> /\ prompt = <<>> /\ replies = <<>>
    /\ response = <<>> /\ calls = <<>> /\ upstream = <<>> /\ served = ""

ExtractSections ==
    /\ result = None
    /\ result' = Some(extract_sections(doc))
    /\ UNCHANGED <<doc, truncVars, requestVars>>

NextExtract == ExtractSections

SpecExtract == InitExtract /\ [][NextExtract]_vars

\* ------------------------------------------------- claims on SpecExtract
\* Every offset of the document at which a pattern matches, read off the document
\* itself (no scan order, no slicing).
OffsetsOf(pattern, s, from) ==
    { i \in from..(Len(s) - 1) : MatchesAt(pattern, s, i) }

StartsOf(p) == OffsetsOf(p.start_pattern, doc, 0)
EndsFrom(p, from) == OffsetsOf(p.end_pattern, doc, from)
Extracted == result[1]
Triples == Range(patterns)

\* C1: when a section's start pattern occurs and its end pattern occurs at or after
\* the last start occurrence, the section stored under its canonical name is the
\* trimmed text from the LAST start occurrence up to the FIRST end occurrence found
\* from there on.
C1_LastStartToFirstEnd ==
    result # None =>
        \A p \in Triples :
            LET starts == StartsOf(p)
                ends == EndsFrom(p, SetMax(starts))
            IN  (starts # {} /\ ends # {}) =>
                    /\ p.name \in DOMAIN Extracted
                    /\ Extracted[p.name] = strip(Slice(doc, SetMax(starts), SetMin(ends)))

\* A section whose heading occurs twice (a table of contents entry, then the body),
\* closed by its end pattern, and whose text would differ had the first occurrence
\* been taken.
C1_Witness ==
    /\ result # None
    /\ \E p \in Triples :
          LET starts == StartsOf(p)
              ends == EndsFrom(p, SetMax(starts))
          IN  /\ Cardinality(starts) >= 2
              /\ ends # {}
              /\ Extracted[p.name] = strip(Slice(doc, SetMax(starts), SetMin(ends)))
              /\ Extracted[p.name] #
                     strip(Slice(doc, SetMin(starts), SetMin(EndsFrom(p, SetMin(starts)))))

\* C2: a section's canonical name is a key of the returned mapping exactly when its
\* start pattern occurs in the text; a section whose start pattern does not occur is
\* absent (not present with an empty text), whatever the other sections do.
C2_KeyIffStartOccurs ==
    result # None =>
        /\ DOMAIN Extracted \subseteq { p.name : p \in Triples }
        /\ \A p \in Triples : (p.name \in DOMAIN Extracted) <=> (StartsOf(p) # {})

\* An earlier section of the list is absent and a later one was still extracted.
C2_Witness ==
    /\ result # None
    /\ \E i, j \in DOMAIN patterns :
          /\ i < j
          /\ StartsOf(patterns[i]) = {} /\ patterns[i].name \notin DOMAIN Extracted
          /\ StartsOf(patterns[j]) # {} /\ patterns[j].name \in DOMAIN Extracted
          /\ Extracted[patterns[j].name] # <<>>

\* C3: when a section's end pattern does not occur from the selected (last) start
\* offset on, the section is the trimmed text from that offset to the end of the
\* document, also when the end pattern occurs earlier in the document.
C3_NoEndRunsToEndOfDocument ==
    result # None =>
        \A p \in Triples :
            LET starts == StartsOf(p)
            IN  (starts # {} /\ EndsFrom(p, SetMax(starts)) = {}) =>
                    /\ p.name \in DOMAIN Extracted
                    /\ Extracted[p.name] = strip(Slice(doc, SetMax(starts), Len(doc)))

\* The end pattern occurs only before the selected start, and the section runs over
\* a later section's heading to the end of the document.
C3_Witness ==
    /\ result # None
    /\ \E p \in Triples :
          LET starts == StartsOf(p)
          IN  /\ starts # {} /\ EndsFrom(p, SetMax(starts)) = {}
              /\ EndsFrom(p, 0) # {}
              /\ Extracted[p.name] = strip(Slice(doc, SetMax(starts), Len(doc)))
              /\ \E q \in Triples :
                    /\ q # p /\ StartsOf(q) # {}
                    /\ SetMax(StartsOf(q)) > SetMax(starts)

\* The sections present in the result, and the range [start, end) of the document
\* each was taken from.
Present == { p \in Triples : p.name \in DOMAIN Extracted }
Spans == [p \in Present |-> SectionSpan(doc, p)]
Disjoint(a, b) == a.end <= b.start \/ b.end <= a.start

\* C9 as stated: the ranges of any two distinct sections present in the result are
\* disjoint.
C9_NoTwoEntriesOverlap ==
    result # None =>
        LET span == Spans
        IN  \A p, q \in Present : p # q => Disjoint(span[p], span[q])

\* The pairs (earlier, later) of the pattern list in which the earlier section's end
\* pattern opens the later section's start pattern: Business / Risk Factors,
\* MD&A / Quantitative, MD&A / Financial Statements, Quantitative / Financial
\* Statements.
ChainedPairs == { <<patterns[1], patterns[2]>>, <<patterns[3], patterns[4]>>,
                  <<patterns[3], patterns[5]>>, <<patterns[4], patterns[5]>> }

\* C9 as amended: two distinct present sections never start at the same offset and
\* each range is non-empty; for the chained pairs the ranges are disjoint whenever the
\* later section's selected start lies after the earlier section's.  Other ranges
\* may overlap.
C9_ChainedSectionsDisjoint ==
    result # None =>
        LET span == Spans
        IN  /\ \A p \in Present : span[p].start < span[p].end
            /\ \A p, q \in Present : p # q => span[p].start # span[q].start
            /\ \A pq \in ChainedPairs :
                  (/\ pq[1] \in Present /\ pq[2] \in Present
                   /\ span[pq[1]].start < span[pq[2]].start) =>
                      span[pq[1]].end <= span[pq[2]].start

\* A chained pair in filing order whose ranges are disjoint, beside a pair of
\* sections whose ranges overlap.
C9_Witness ==
    /\ result # None
    /\ LET span == Spans
       IN  /\ \E pq \in ChainedPairs :
                 /\ pq[1] \in Present /\ pq[2] \in Present
                 /\ span[pq[1]].start < span[pq[2]].start
                 /\ Disjoint(span[pq[1]], span[pq[2]])
           /\ \E p, q \in Present : p # q /\ ~Disjoint(span[p], span[q])

\* ---------------------------------------------- analyze_with_gemini: truncation
DIGITS == <<"0","1","2","3","4","5","6","7","8","9">>

\* str(n) for n >= 0, as the f-string renders len(section_text)
RECURSIVE Decimal(_)
Decimal(n) == IF n < 10 THEN <<DIGITS[n + 1]>> ELSE Decimal(n \div 10) \o <<DIGITS[(n % 10) + 1]>>

\* int(s) for a string of decimal digits
RECURSIVE DecimalValue(_)
DecimalValue(ds) ==
    IF ds = <<>> THEN 0
    ELSE 10 * DecimalValue(SubSeq(ds, 1, Len(ds) - 1)) + (IndexIn(DIGITS, ds[Len(ds)]) - 1)

MARKER_HEAD == <<"\n","\n","[","T","e","x","t"," ","t","r","u","n","c","a","t","e","d"," ","-"," ","o","r","i","g","i","n","a","l"," ","l","e","n","g","t","h",":"," ">>
MARKER_TAIL == <<" ","c","h","a","r","a","c","t","e","r","s","]">>

\* f"\n\n[Text truncated - original length: {len(section_text)} characters]"
Marker(n) == MARKER_HEAD \o Decimal(n) \o MARKER_TAIL

\* section_text[:MAX_TEXT_LENGTH]
Prefix(s) == Slice(s, 0, IF Len(s) < MAX_TEXT_LENGTH THEN Len(s) ELSE MAX_TEXT_LENGTH)

NeedsMarker_AtLimit(s) == Len(s) >= MAX_TEXT_LENGTH

\* if len(section_text) > MAX_TEXT_LENGTH
NeedsMarker(s) == Len(s) > MAX_TEXT_LENGTH

Truncate(s) == IF NeedsMarker(s) THEN Prefix(s) \o Marker(Len(s)) ELSE Prefix(s)

\* ---------------------------------------------------------------- SpecTrunc
TruncInputs == UNION { [1..n -> {"a", "b"}] : n \in 0..(MAX_TEXT_LENGTH + MaxOver) }

InitTrunc ==
    /\ section_text \in TruncInputs
    /\ truncated_text = None
    /\ doc = <<>> /\ result = None
    /\ pc = <<>> /\ ticker = <<>> /\ section = <<>> /\ cik = <<>> /\ url = <<>>
    /\ text = <<>> /\ normalized_sections = <<>> /\ prompt = <<>> /\ replies = <<>>
    /\ response = <<>> /\ calls = <<>> /\ upstream = <<>> /\ served = ""

TruncateText ==
    /\ truncated_text = None
    /\ truncated_text' = Some(Truncate(section_text))
    /\ UNCHANGED <<section_text, extractVars, requestVars>>

NextTrunc == TruncateText

SpecTrunc == InitTrunc /\ [][NextTrunc]_vars

\* --------------------------------------------------- claims on SpecTrunc
\* The text carries a truncation note somewhere.
CarriesMarker(t) ==
    \E i \in 0..(Len(t) - Len(MARKER_HEAD)) : Slice(t, i, i + Len(MARKER_HEAD)) = MARKER_HEAD

\* t is the first MAX_TEXT_LENGTH characters of s followed by the note stating n.
IsCutWithNote(t, s, n) ==
    LET k == Len(t) - MAX_TEXT_LENGTH - Len(MARKER_HEAD) - Len(MARKER_TAIL)
        at == MAX_TEXT_LENGTH + Len(MARKER_HEAD)
    IN  /\ k >= 1
        /\ Slice(t, 0, MAX_TEXT_LENGTH) = SubSeq(s, 1, MAX_TEXT_LENGTH)
        /\ Slice(t, MAX_TEXT_LENGTH, at) = MARKER_HEAD
        /\ \A i \in (at + 1)..(at + k) : t[i] \in Range(DIGITS)
        /\ (k > 1 => t[at + 1] # "0")
        /\ DecimalValue(Slice(t, at, at + k)) = n
        /\ Slice(t, at + k, Len(t)) = MARKER_TAIL

\* C7: the text placed in the prompt carries the truncation note (stating the
\* original length) exactly when the section text is longer than MAX_TEXT_LENGTH; a
\* text of at most that length, one exactly at the limit included, goes through
\* unchanged, and a longer one contributes its first MAX_TEXT_LENGTH characters
\* followed by the note.
C7_MarkerIffTruncated ==
    truncated_text # None =>
        LET t == truncated_text[1]
            n == Len(section_text)
        IN  /\ CarriesMarker(t) <=> n > MAX_TEXT_LENGTH
            /\ n <= MAX_TEXT_LENGTH => t = section_text
            /\ n > MAX_TEXT_LENGTH => IsCutWithNote(t, section_text, n)

\* A text over the limit whose length takes two digits was cut and annotated.
C7_Witness ==
    /\ truncated_text # None
    /\ Len(section_text) >= 10
    /\ Len(section_text) > MAX_TEXT_LENGTH
    /\ IsCutWithNote(truncated_text[1], section_text, Len(section_text))

\* ------------------------------------------------------------ upstream data
AAPL == <<"A","A","P","L">>
MSFT == <<"M","S","F","T">>

\* https://www.sec.gov/files/company_tickers.json, its values in order
COMPANY_TICKERS ==
    << [ticker |-> MSFT, cik_str |-> 789019],
       [ticker |-> AAPL, cik_str |-> 320193] >>

\* https://data.sec.gov/submissions/CIK##########.json: filings.recent
RECENT_WITH_10K ==
    [form |-> <<"10-Q", "10-K", "10-K">>,
     accessionNumber |->
        << <<"0","0","0","0","3","2","0","1","9","3","-","2","4","-","0","0","0","1","2","3">>,
           <<"0","0","0","0","3","2","0","1","9","3","-","2","3","-","0","0","0","1","0","6">>,
           <<"0","0","0","0","3","2","0","1","9","3","-","2","2","-","0","0","0","1","0","8">> >>,
     primaryDocument |-> <<"q3.htm", "k2023.htm", "k2022.htm">>]

RECENT_WITHOUT_10K ==
    [form |-> <<"10-Q", "8-K">>,
     accessionNumber |->
        << <<"0","0","0","0","3","2","0","1","9","3","-","2","4","-","0","0","0","1","2","3">>,
           <<"0","0","0","0","3","2","0","1","9","3","-","2","4","-","0","0","0","0","6","9">> >>,
     primaryDocument |-> <<"q3.htm", "8k.htm">>]

\* What each upstream service may answer; None is a failed call (network error,
\* timeout, bad status, malformed body), which the callers' `except` turns into None.
DirectoryReplies == {None, Some(COMPANY_TICKERS)}
IndexReplies == {None, Some(RECENT_WITH_10K), Some(RECENT_WITHOUT_10K)}
PageReplies(filings) == {None} \cup { Some(d) : d \in filings \cup {<<>>} }

\* The oracle raises, or returns a response whose text is absent (None), empty or a
\* summary.
OracleReplies ==
    { [raises |-> TRUE, text |-> None],
      [raises |-> FALSE, text |-> None],
      [raises |-> FALSE, text |-> Some("")],
      [raises |-> FALSE, text |-> Some("Durable moat; conservative accounting.")] }

\* str(response) of the SDK's response object: the rendering of its fields.
RESPONSE_REPR == "sdk_http_response=... candidates=... usage_metadata=..."

Endpoints == {"company_tickers", "submissions", "archive", "generate_content"}

\* ------------------------------------------------------------------ get_cik
\* str.zfill(width)
zfill(s, width) == IF Len(s) >= width THEN s ELSE [i \in 1..(width - Len(s)) |-> "0"] \o s

get_cik(t, reply) ==
    IF reply = None THEN None
    ELSE LET data == reply[1]
             hits == { i \in DOMAIN data : lower(data[i].ticker) = lower(t) }
         IN  IF hits = {} THEN None
             ELSE Some(zfill(Decimal(data[SetMin(hits)].cik_str), 10))

\* ------------------------------------------------------- get_latest_10k_url
\* accession.replace('-', '')
RemoveDashes(s) == SelectSeq(s, LAMBDA c : c # "-")

\* c is the caller's cik: int(None) raises inside the try, which returns None.
get_latest_10k_url(c, reply) ==
    IF reply = None THEN None
    ELSE LET recent == reply[1]
             hits == { i \in DOMAIN recent.form : recent.form[i] = "10-K" }
         IN  IF hits = {} \/ c = None THEN None
             ELSE LET i == SetMin(hits)
                  IN  Some([cik |-> DecimalValue(c[1]),
                            accession |-> RemoveDashes(recent.accessionNumber[i]),
                            primary_doc |-> recent.primaryDocument[i]])

\* ----------------------------------------------------------- fetch_10k_text
\* The reply is the page's text as soup.get_text(separator="\n") renders it.
fetch_10k_text(u, reply) == reply

\* ------------------------------------------------- analyze_10k: the sections
KEY_BUSINESS == <<"b","u","s","i","n","e","s","s">>
KEY_RISK == <<"r","i","s","k"," ","f","a","c","t","o","r","s">>
KEY_MDA == <<"m","a","n","a","g","e","m","e","n","t","'","s"," ","d","i","s","c","u","s","s","i","o","n"," ","a","n","d"," ","a","n","a","l","y","s","i","s">>
KEY_QUANT == <<"q","u","a","n","t","i","t","a","t","i","v","e"," ","a","n","d"," ","q","u","a","l","i","t","a","t","i","v","e"," ","d","i","s","c","l","o","s","u","r","e","s">>
KEY_FIN == <<"f","i","n","a","n","c","i","a","l"," ","s","t","a","t","e","m","e","n","t","s">>
KEY_COMBINED == <<"c","o","m","b","i","n","e","d">>

\* normalized_sections = {k.lower(): v for k, v in sections.items()}
NormalizeKeys(sections) ==
    [k \in { lower(n) : n \in DOMAIN sections } |->
        sections[CHOOSE n \in DOMAIN sections : lower(n) = k]]

combined_order_RiskFirst == <<KEY_RISK, KEY_BUSINESS, KEY_MDA>>

combined_order == <<KEY_BUSINESS, KEY_RISK, KEY_MDA>>

NL2 == <<"\n", "\n">>

\* the loop over combined_order: f"{header}\n\n{normalized_sections[key]}"
RECURSIVE CombinedParts(_, _)
CombinedParts(ns, i) ==
    IF i > Len(combined_order) THEN <<>>
    ELSE LET key == combined_order[i]
         IN  IF key \in DOMAIN ns
             THEN <<title(key) \o NL2 \o ns[key]>> \o CombinedParts(ns, i + 1)
             ELSE CombinedParts(ns, i + 1)

\* sep.join(parts)
RECURSIVE Join(_, _)
Join(sep, parts) ==
    IF parts = <<>> THEN <<>>
    ELSE IF Len(parts) = 1 THEN parts[1]
         ELSE parts[1] \o sep \o Join(sep, Tail(parts))

\* if combined_parts: normalized_sections["combined"] = "\n\n".join(combined_parts)
WithCombined(ns) ==
    LET combined_parts == CombinedParts(ns, 1)
    IN  IF combined_parts # <<>>
        THEN DictSet(ns, KEY_COMBINED, Join(NL2, combined_parts))
        ELSE ns

\* normalized_sections as it stands at the lookup of section_key
SectionsOf(t) == WithCombined(NormalizeKeys(extract_sections(t)))

\* ------------------------------------------------------ analyze_with_gemini
TemplateKeys == {KEY_BUSINESS, KEY_RISK, KEY_MDA, KEY_QUANT, KEY_FIN, KEY_COMBINED}
FALLBACK == <<"f","a","l","l","b","a","c","k">>

\* The request sent to the oracle: the template chosen by the lower-cased section
\* name (or the fallback prompt), filled with the section name and truncated text.
BuildPrompt(section_name, sec_text) ==
    [template |-> IF lower(section_name) \in TemplateKeys THEN lower(section_name)
                  ELSE FALLBACK,
     model |-> "gemini-2.5-flash",
     system_instruction |-> "You are an expert investment analyst.",
     section_name |-> section_name,
     section_text |-> Truncate(sec_text)]

\* return getattr(response, "text", None) or str(response)
ReturnValue(reply) ==
    IF reply.text # None /\ reply.text[1] # "" THEN reply.text[1] ELSE RESPONSE_REPR

\* --------------------------------------------------------------- responses
ErrorResponse(status, message, arg) ==
    [status |-> status, body |-> [error |-> [text |-> message, arg |-> arg]]]

TickerNotFound == ErrorResponse(404, "Ticker not found", <<>>)
No10KFound == ErrorResponse(404, "No 10-K found", <<>>)
FetchFailed == ErrorResponse(500, "Failed to fetch 10-K content", <<>>)
SectionNotFound(s) == ErrorResponse(404, "Section {section} not found", s)
SummaryFailed == ErrorResponse(500, "Failed to generate summary", <<>>)
InternalError == ErrorResponse(500, "Internal server error", <<>>)

\* jsonify({"ticker": ticker, "section": section, "summary": summary}), status 200
Success(t, s, summary) ==
    [status |-> 200, body |-> [ticker |-> t, section |-> s, summary |-> summary]]

CikMissing_Never(c) == FALSE

\* if not cik
CikMissing(c) == c = None \/ c[1] = <<>>

\* if not url
UrlMissing(u) == u = None

\* if not text
TextMissing(t) == t = None \/ t[1] = <<>>

\* What the end of analyze_10k returns for the oracle's reply: the `except` of
\* analyze_10k when analyze_with_gemini re-raised, the `if not summary` branch, or
\* the summary.
Outcome(t, s, reply) ==
    IF reply.raises THEN InternalError
    ELSE IF ReturnValue(reply) = "" THEN SummaryFailed
         ELSE Success(t, s, ReturnValue(reply))

\* The filings the archive serves a single request: every document of up to
\* MaxChunks chunks among the Business, Risk Factors, MD&A and Financial Statements
\* headings and the body.
PipelineChunks == {1, 2, 4, 7, 9}
PipelineDocs ==
    { Flatten(cs) : cs \in UNION { [1..k -> PipelineChunks] : k \in 0..MaxChunks } }

\* The filings the archive serves concurrent requests.
ConcDocs == { Flatten(<<1, 9, 2>>), Flatten(<<2, 9>>) }
\* The filings the archive holds.
Archive == IF served = "all" THEN PipelineDocs ELSE ConcDocs

\* ------------------------------------------------------------- analyze_10k
Requests == 1..MaxRequests

StageOrder == <<"get_cik", "get_latest_10k_url", "fetch_10k_text", "extract_sections",
                "analyze_with_gemini">>

\* `return jsonify(...), status`: the request is answered and its handler ends.
Respond(r, resp) ==
    /\ response' = [response EXCEPT ![r] = Some(resp)]
    /\ pc' = [pc EXCEPT ![r] = "done"]

Continue(r, stage) ==
    /\ pc' = [pc EXCEPT ![r] = stage]
    /\ UNCHANGED response

\* The request calls an upstream service and gets `reply`.
Called(r, stage, endpoint, reply) ==
    /\ calls' = [calls EXCEPT ![r] = Append(@, stage)]
    /\ replies' = [replies EXCEPT ![r] = Append(@, reply)]
    /\ upstream' = [upstream EXCEPT ![endpoint] = @ + 1]

\* cik = get_cik(ticker); if not cik: return 404
GetCik(r) ==
    /\ pc[r] = "get_cik"
    /\ \E reply \in DirectoryReplies :
          LET c == get_cik(ticker[r], reply)
          IN  /\ cik' = [cik EXCEPT ![r] = c]
              /\ Called(r, "get_cik", "company_tickers", reply)
              /\ IF CikMissing(c) THEN Respond(r, TickerNotFound)
                 ELSE Continue(r, "get_latest_10k_url")
    /\ UNCHANGED <<extractVars, truncVars, ticker, section, url, text,
                   normalized_sections, prompt, served>>

\* url = get_latest_10k_url(cik); if not url: return 404
GetLatest10kUrl(r) ==
    /\ pc[r] = "get_latest_10k_url"
    /\ \E reply \in IndexReplies :
          LET u == get_latest_10k_url(cik[r], reply)
          IN  /\ url' = [url EXCEPT ![r] = u]
              /\ Called(r, "get_latest_10k_url", "submissions", reply)
              /\ IF UrlMissing(u) THEN Respond(r, No10KFound)
                 ELSE Continue(r, "fetch_10k_text")
    /\ UNCHANGED <<extractVars, truncVars, ticker, section, cik, text,
                   normalized_sections, prompt, served>>

\* text = fetch_10k_text(url); if not text: return 500
Fetch10kText(r) ==
    /\ pc[r] = "fetch_10k_text"
    /\ \E reply \in PageReplies(Archive) :
          LET t == fetch_10k_text(url[r], reply)
          IN  /\ text' = [text EXCEPT ![r] = t]
              /\ Called(r, "fetch_10k_text", "archive", reply)
              /\ IF TextMissing(t) THEN Respond(r, FetchFailed)
                 ELSE Continue(r, "extract_sections")
    /\ UNCHANGED <<extractVars, truncVars, ticker, section, cik, url,
                   normalized_sections, prompt, served>>

OwnText_Shared(r) ==
    text[SetMin({ q \in Requests : ~TextMissing(text[q]) })][1]

\* the local `text` of the request's own call of analyze_10k
OwnText(r) == text[r][1]

\* sections = extract_sections(text) ... if section_key not in normalized_sections:
\* return 404
ExtractAndLookUp(r) ==
    /\ pc[r] = "extract_sections"
    /\ LET ns == SectionsOf(OwnText(r))
           section_key == lower(section[r])
       IN  /\ normalized_sections' = [normalized_sections EXCEPT ![r] = Some(ns)]
           /\ calls' = [calls EXCEPT ![r] = Append(@, "extract_sections")]
           /\ IF section_key \notin DOMAIN ns THEN Respond(r, SectionNotFound(section[r]))
              ELSE Continue(r, "analyze_with_gemini")
    /\ UNCHANGED <<extractVars, truncVars, ticker, section, cik, url, text, prompt,
                   replies, upstream, served>>

\* summary = analyze_with_gemini(section, normalized_sections[section_key]) and the
\* rest of analyze_10k
AnalyzeWithGemini(r) ==
    /\ pc[r] = "analyze_with_gemini"
    /\ \E reply \in OracleReplies :
          /\ prompt' = [prompt EXCEPT ![r] =
                 Some(BuildPrompt(section[r],
                                  normalized_sections[r][1][lower(section[r])]))]
          /\ Called(r, "analyze_with_gemini", "generate_content", reply)
          /\ Respond(r, Outcome(ticker[r], section[r], reply))
    /\ UNCHANGED <<extractVars, truncVars, ticker, section, cik, url, text,
                   normalized_sections, served>>

\* analyze_10k run from start to end on its own, the upstream services answering
\* rs[1], rs[2], ... in the order asked (a missing answer is a failed call): the
\* response, the stages performed and the prompt sent.
Reply(rs, k) == IF k <= Len(rs) THEN rs[k] ELSE None
OracleReply(rs) == IF Len(rs) >= 4 THEN rs[4] ELSE [raises |-> TRUE, text |-> None]
Ran(resp, n, p) == [response |-> resp, calls |-> SubSeq(StageOrder, 1, n), prompt |-> p]

analyze_10k(t, s, rs) ==
    LET c == get_cik(t, Reply(rs, 1))
        u == get_latest_10k_url(c, Reply(rs, 2))
        tx == fetch_10k_text(u, Reply(rs, 3))
    IN  IF CikMissing(c) THEN Ran(TickerNotFound, 1, None)
        ELSE IF UrlMissing(u) THEN Ran(No10KFound, 2, None)
        ELSE IF TextMissing(tx) THEN Ran(FetchFailed, 3, None)
        ELSE LET ns == SectionsOf(tx[1])
             IN  IF lower(s) \notin DOMAIN ns THEN Ran(SectionNotFound(s), 4, None)
                 ELSE Ran(Outcome(t, s, OracleReply(rs)), 5,
                          Some(BuildPrompt(s, ns[lower(s)])))

\* ------------------------------------------------------ request parameters
aapl == <<"a","a","p","l">>
ZZZZ == <<"Z","Z","Z","Z">>
Tickers == {aapl, ZZZZ}

\* <section> as callers spell it
SectionNames ==
    { Business,
      <<"R","I","S","K"," ","F","A","C","T","O","R","S">>,
      KEY_FIN,
      <<"C","o","m","b","i","n","e","d">>,
      <<"s","u","m","m","a","r","y">> }

ConcSectionNames == { <<"C","o","m","b","i","n","e","d">> }

InitRequests(active, tickers, names, archive) ==
    /\ doc = <<>> /\ result = None
    /\ section_text = <<>> /\ truncated_text = None
    /\ pc = [r \in Requests |-> IF r \in active THEN "get_cik" ELSE "idle"]
    /\ ticker \in [Requests -> tickers \cup {<<>>}]
    /\ section \in [Requests -> names \cup {<<>>}]
    /\ \A r \in Requests : (r \in active) <=> ticker[r] # <<>>
    /\ \A r \in Requests : (r \in active) <=> section[r] # <<>>
    /\ cik = [r \in Requests |-> None]
    /\ url = [r \in Requests |-> None]
    /\ text = [r \in Requests |-> None]
    /\ normalized_sections = [r \in Requests |-> None]
    /\ prompt = [r \in Requests |-> None]
    /\ replies = [r \in Requests |-> <<>>]
    /\ response = [r \in Requests |-> None]
    /\ calls = [r \in Requests |-> <<>>]
    /\ upstream = [e \in Endpoints |-> 0]
    /\ served = archive

Next ==
    \E r \in Requests :
        \/ GetCik(r)
        \/ GetLatest10kUrl(r)
        \/ Fetch10kText(r)
        \/ ExtractAndLookUp(r)
        \/ AnalyzeWithGemini(r)

\* One request, any ticker, section name and filing.
Init == InitRequests({1}, Tickers, SectionNames, "all")
Spec == Init /\ [][Next]_vars

\* MaxRequests requests handled at the same time, their stages interleaved.
InitConc == InitRequests(Requests, Tickers, ConcSectionNames, "two")
SpecConc == InitConc /\ [][Next]_vars

\* ------------------------------------------------ claims on Spec and SpecConc
Done(r) == pc[r] = "done"
Performed(r, stage) == stage \in Range(calls[r])

\* What the upstream services told the request, read off their answers.
DirectoryAnswered(r) == Len(replies[r]) >= 1
TickerResolves(r) ==
    /\ Len(replies[r]) >= 1 /\ replies[r][1] # None
    /\ \E i \in DOMAIN COMPANY_TICKERS : lower(COMPANY_TICKERS[i].ticker) = lower(ticker[r])
FilingFound(r) ==
    /\ Len(replies[r]) >= 2 /\ replies[r][2] # None
    /\ "10-K" \in Range(replies[r][2][1].form)
DocumentFetched(r) ==
    /\ Len(replies[r]) >= 3 /\ replies[r][3] # None /\ replies[r][3][1] # <<>>
SectionPresent(r) ==
    /\ DocumentFetched(r)
    /\ lower(section[r]) \in
          { lower(p.name) : p \in { q \in Triples : OffsetsOf(q.start_pattern, replies[r][3][1], 0) # {} } }
          \cup (IF \E q \in {patterns[1], patterns[2], patterns[3]} :
                      OffsetsOf(q.start_pattern, replies[r][3][1], 0) # {}
                THEN {KEY_COMBINED} ELSE {})
OracleAnswered(r) == Len(replies[r]) >= 4
OracleFailed(r) ==
    /\ OracleAnswered(r)
    /\ \/ replies[r][4].raises
       \/ replies[r][4].text = None
       \/ replies[r][4].text = Some("")

IsError(resp, status) == resp.status = status /\ DOMAIN resp.body = {"error"}
IsSuccessFor(resp, r) ==
    /\ resp.status = 200
    /\ DOMAIN resp.body = {"ticker", "section", "summary"}
    /\ resp.body.ticker = ticker[r] /\ resp.body.section = section[r]

\* C4: the stages run in the order identifier lookup, filing lookup, document fetch,
\* section extraction, oracle call, each at most once, and a failed stage ends the
\* request: when the ticker does not resolve the response is 404 "Ticker not found"
\* and nothing after the identifier lookup is ever called; the oracle is called only
\* after the ticker resolved, a 10-K was found, the document was fetched and the
\* requested section is present.
C4_StagesInOrderFailureAborts ==
    /\ \A r \in Requests :
          /\ \E n \in 0..Len(StageOrder) : calls[r] = SubSeq(StageOrder, 1, n)
          /\ (DirectoryAnswered(r) /\ ~TickerResolves(r)) =>
                /\ response[r] = Some(TickerNotFound)
                /\ calls[r] = <<"get_cik">>
                /\ Len(replies[r]) = 1
          /\ (Performed(r, "get_latest_10k_url") /\ ~FilingFound(r)) =>
                (Done(r) /\ Len(calls[r]) = 2)
          /\ (Performed(r, "fetch_10k_text") /\ ~DocumentFetched(r)) =>
                (Done(r) /\ Len(calls[r]) = 3)
          /\ (Performed(r, "extract_sections") /\ ~SectionPresent(r)) =>
                (Done(r) /\ Len(calls[r]) = 4)
          /\ Performed(r, "analyze_with_gemini") =>
                /\ TickerResolves(r) /\ FilingFound(r) /\ DocumentFetched(r)
                /\ SectionPresent(r)
                /\ Len(replies[r]) = 4
          /\ Done(r) => response[r] # None
    /\ upstream["generate_content"] =
          Cardinality({ r \in Requests : Performed(r, "analyze_with_gemini") })
    /\ upstream["submissions"] =
          Cardinality({ r \in Requests : TickerResolves(r) /\ Len(calls[r]) >= 2 })

\* The directory answered, the ticker is not in it, and the request ended 404 having
\* called nothing else.
C4_Witness ==
    \E r \in Requests :
        /\ ticker[r] = ZZZZ
        /\ replies[r] = <<Some(COMPANY_TICKERS)>>
        /\ response[r] = Some(TickerNotFound)
        /\ upstream["submissions"] = 0 /\ upstream["archive"] = 0
        /\ upstream["generate_content"] = 0

\* C5 as stated: a request ends in exactly one response: 404 with only the key error
\* when the ticker, the filing or the requested section is not found; 500 with only
\* the key error when the fetch fails or the oracle raises or yields no summary; 200
\* with exactly ticker, section and summary (the first two echoed) otherwise.
C5_ResponseClassification ==
    \A r \in Requests :
        /\ Done(r) <=> response[r] # None
        /\ Done(r) =>
              LET resp == response[r][1]
              IN  IF ~TickerResolves(r) \/ ~FilingFound(r) THEN IsError(resp, 404)
                  ELSE IF ~DocumentFetched(r) THEN IsError(resp, 500)
                  ELSE IF ~SectionPresent(r) THEN IsError(resp, 404)
                  ELSE IF OracleFailed(r) THEN IsError(resp, 500)
                  ELSE IsSuccessFor(resp, r)

\* C6 as stated: when the oracle raises, or returns a response whose text is absent
\* or empty, the request ends with a 500 error, never with a 200 carrying a
\* summary, and the oracle was called once.
C6_OracleFailureEnds500 ==
    \A r \in Requests :
        OracleFailed(r) =>
            /\ Done(r)
            /\ IsError(response[r][1], 500)
            /\ Len(SelectSeq(calls[r], LAMBDA c : c = "analyze_with_gemini")) = 1

HDR_BUSINESS == <<"B","u","s","i","n","e","s","s">>
HDR_RISK == <<"R","i","s","k"," ","F","a","c","t","o","r","s">>
HDR_MDA == <<"M","a","n","a","g","e","m","e","n","t","'","S"," ","D","i","s","c","u","s","s","i","o","n"," ","A","n","d"," ","A","n","a","l","y","s","i","s">>
BlankLine == <<"\n", "\n">>

\* Business, Risk Factors and MD&A, with the key and the header of each.
CombinedSources ==
    << [name |-> Business, key |-> KEY_BUSINESS, header |-> HDR_BUSINESS],
       [name |-> RiskFactors, key |-> KEY_RISK, header |-> HDR_RISK],
       [name |-> MDA, key |-> KEY_MDA, header |-> HDR_MDA] >>

\* The sections among the three that the mapping ns holds, each with its header, in
\* the order Business, Risk Factors, MD&A.
ExpectedParts(ns) ==
    LET Part(i) ==
            IF CombinedSources[i].key \in DOMAIN ns
            THEN <<CombinedSources[i].header \o BlankLine \o ns[CombinedSources[i].key]>>
            ELSE <<>>
    IN  Part(1) \o Part(2) \o Part(3)

ExpectedCombined(ps) ==
    IF Len(ps) = 1 THEN ps[1]
    ELSE IF Len(ps) = 2 THEN ps[1] \o BlankLine \o ps[2]
    ELSE ps[1] \o BlankLine \o ps[2] \o BlankLine \o ps[3]

\* The mapping holds each of the three sections under its lower-cased name exactly
\* when extract_sections extracted it from the request's text, with that text.
HoldsExtracted(ns, r) ==
    LET ex == extract_sections(text[r][1])
    IN  \A i \in DOMAIN CombinedSources :
            LET c == CombinedSources[i]
            IN  /\ (c.key \in DOMAIN ns) <=> (c.name \in DOMAIN ex)
                /\ (c.key \in DOMAIN ns) => ns[c.key] = ex[c.name]

\* The request has just come out of the extraction.
JustExtracted(r) == normalized_sections[r] # None /\ Len(replies[r]) = 3

\* C8: the "combined" section is the extracted ones among Business, Risk Factors and
\* MD&A, in that order, each as its title-cased key, a blank line and its text, joined
\* by blank lines; it exists (and a request for it is not answered "section not
\* found") exactly when at least one of the three was extracted.
C8_CombinedSection ==
    \A r \in Requests :
        normalized_sections[r] # None =>
            LET ns == normalized_sections[r][1]
                ps == ExpectedParts(ns)
            IN  /\ JustExtracted(r) => HoldsExtracted(ns, r)
                /\ (KEY_COMBINED \in DOMAIN ns) <=> (ps # <<>>)
                /\ (KEY_COMBINED \in DOMAIN ns) => ns[KEY_COMBINED] = ExpectedCombined(ps)
                /\ lower(section[r]) = KEY_COMBINED =>
                      ((response[r] = Some(SectionNotFound(section[r]))) <=> (ps = <<>>))

\* Business and MD&A were extracted, Risk Factors was not, and the request for
\* "Combined" went on to the oracle with the two joined.
C8_Witness ==
    \E r \in Requests :
        /\ normalized_sections[r] # None
        /\ pc[r] = "analyze_with_gemini"
        /\ lower(section[r]) = KEY_COMBINED /\ section[r] # KEY_COMBINED
        /\ DOMAIN extract_sections(text[r][1]) = {Business, MDA}
        /\ Len(ExpectedParts(normalized_sections[r][1])) = 2
        /\ normalized_sections[r][1][KEY_COMBINED] =
              ExpectedCombined(ExpectedParts(normalized_sections[r][1]))

EndpointOf(stage) ==
    CASE stage = "get_cik" -> "company_tickers"
      [] stage = "get_latest_10k_url" -> "submissions"
      [] stage = "fetch_10k_text" -> "archive"
      [] stage = "analyze_with_gemini" -> "generate_content"
      [] OTHER -> "none"

\* C10: with the stages of the requests interleaved in any order, every request ends
\* with the response (and has sent the prompt and performed the stages) of a run of
\* its own against the answers it was given, and every upstream endpoint has served
\* one call per request that reached it: nothing is shared, cached or deduplicated.
C10_RequestsIndependent ==
    /\ \A r \in Requests :
          LET alone == analyze_10k(ticker[r], section[r], replies[r])
          IN  /\ Done(r) =>
                    /\ response[r] = Some(alone.response)
                    /\ calls[r] = alone.calls
                    /\ prompt[r] = alone.prompt
              /\ ~Done(r) => response[r] = None
    /\ \A e \in Endpoints :
          upstream[e] =
              Cardinality({ r \in Requests :
                              \E i \in DOMAIN calls[r] : EndpointOf(calls[r][i]) = e })

\* Two requests for the same ticker and section were served different filings, each
\* fetched its own and called the oracle itself, and they got different prompts
\* through and the same 200 answer.
C10_Witness ==
    \E r, q \in Requests :
        /\ r # q /\ Done(r) /\ Done(q)
        /\ ticker[r] = ticker[q] /\ section[r] = section[q]
        /\ text[r] # text[q]
        /\ response[r][1].status = 200 /\ response[q][1].status = 200
        /\ prompt[r] # prompt[q]
        /\ upstream["archive"] >= 2 /\ upstream["generate_content"] >= 2

=============================================================================
